---- MODULE Spec2Model ----
(***************************************************************************)
(* update-changelog-deps-action: dependency diff, change formatter and     *)
(* changelog section merge.                                                *)
(*                                                                         *)
(* Text is modelled as sequences of one-character strings, so that         *)
(* startsWith, trim, split and join are computed character by character.   *)
(* Line indexes are 1-based; 0 plays the role of the source's -1.          *)
(***************************************************************************)
EXTENDS Integers, Sequences, FiniteSets, TLC

VARIABLES
    changelog,      \* content of CHANGELOG.md as the file service stores it
    original,       \* content of CHANGELOG.md before the first call
    before,         \* content of CHANGELOG.md before the most recent call
    argChanges,     \* formattedChanges handed to updateChangelog
    argVersion,     \* version handed to updateChangelog (Undefined: not given)
    outcome,        \* how the most recent updateChangelog call ended
    thrown,         \* message of the Error the most recent call threw
    reads,          \* readFile calls made by the most recent call
    writes,         \* writeFile calls made by the most recent call
    calls,          \* number of updateChangelog calls so far
    oldPkg,         \* manifest handed to compare as oldPackageJson
    newPkg,         \* manifest handed to compare as newPackageJson
    changes,        \* PackageChanges returned by compare
    compared,       \* compare has returned
    formatted,      \* string returned by format (Undefined: not called yet)
    detected,       \* what hasChanges returned ("unset": not called yet)
    pc,             \* position of run
    env,            \* what run finds: action inputs, files, git repository
    outputs,        \* action outputs set through core.setOutput
    failures,       \* messages handed to core.setFailed, in order
    events,         \* calls run made on its collaborators, in order
    execs,          \* git commands the version-history provider ran, in order
    caught          \* value thrown inside run's try block
vars == <<changelog, original, before, argChanges, argVersion, outcome, thrown,
          reads, writes, calls, oldPkg, newPkg, changes, compared,
          formatted, detected, pc, env, outputs, failures, events, execs, caught>>
mergeVars == <<changelog, original, before, argChanges, argVersion, outcome,
               thrown, reads, writes, calls>>
diffVars == <<oldPkg, newPkg, changes, compared>>
formatVars == <<formatted, detected>>
runVars == <<pc, env, outputs, failures, events, execs, caught>>

(***************************************************************************)
(* Bounds of the model.                                                    *)
(***************************************************************************)
MaxLines == 4
MaxCalls == 2
MaxNames == 2
MaxEntries == 2

(***************************************************************************)
(* JavaScript string primitives.                                           *)
(***************************************************************************)
Undefined == <<"undefined">>
NL == "\n"
EmptyStr == <<>>

StartsWith(s, p) == Len(s) >= Len(p) /\ SubSeq(s, 1, Len(p)) = p

IsSpace(c) == c \in {" ", "\t", NL}

RECURSIVE TrimStart(_)
TrimStart(s) == IF s # <<>> /\ IsSpace(Head(s)) THEN TrimStart(Tail(s)) ELSE s

RECURSIVE TrimEnd(_)
TrimEnd(s) ==
    IF s # <<>> /\ IsSpace(s[Len(s)]) THEN TrimEnd(SubSeq(s, 1, Len(s) - 1)) ELSE s

Trim(s) == TrimEnd(TrimStart(s))

\* a string is truthy iff it is defined and not empty
Truthy(s) == s # Undefined /\ s # EmptyStr

RECURSIVE Ascending(_)
\* the elements of a set of numbers in ascending order
Ascending(S) ==
    IF S = {} THEN <<>>
    ELSE LET m == CHOOSE i \in S : \A j \in S : i <= j
         IN <<m>> \o Ascending(S \ {m})

\* content.split('\n'): the pieces between successive line breaks
Split(s) ==
    LET breaks == Ascending({i \in 1..Len(s) : s[i] = NL})
        n == Len(breaks)
        StartOf(k) == IF k = 1 THEN 1 ELSE breaks[k - 1] + 1
        EndOf(k) == IF k = n + 1 THEN Len(s) ELSE breaks[k] - 1
    IN [k \in 1..(n + 1) |-> SubSeq(s, StartOf(k), EndOf(k))]

RECURSIVE Join(_)
\* lines.join('\n')
Join(lines) ==
    IF lines = <<>> THEN <<>>
    ELSE IF Len(lines) = 1 THEN lines[1]
    ELSE lines[1] \o <<NL>> \o Join(Tail(lines))

(***************************************************************************)
(* The micro-grammar shared by formatter and merger.                       *)
(***************************************************************************)
Updated == <<"u","p","d","a","t","e","d">>
Added == <<"a","d","d","e","d">>
Removed == <<"r","e","m","o","v","e","d">>
Verbs == {Updated, Added, Removed}
ClsDependencies == <<"d","e","p","e","n","d","e","n","c","i","e","s">>
ClsDevDependencies == <<"d","e","v","D","e","p","e","n","d","e","n","c","i","e","s">>
ClsPeerDependencies == <<"p","e","e","r","D","e","p","e","n","d","e","n","c","i","e","s">>
ClsOptionalDependencies ==
    <<"o","p","t","i","o","n","a","l","D","e","p","e","n","d","e","n","c","i","e","s">>
ClassOrder == <<ClsDependencies, ClsDevDependencies, ClsPeerDependencies,
                ClsOptionalDependencies>>
ClassNames == {ClassOrder[i] : i \in 1..4}

VersionMark == <<"#","#"," ","[">>
SubsectionMark == <<"#","#","#">>
ChangedHeading == <<"#","#","#"," ","C","h","a","n","g","e","d">>
SubpointMark == <<" "," "," "," ","-">>

HeaderLine(verb, cls) == <<"-"," ">> \o verb \o <<" ">> \o cls

\* the header pattern without its last alternative
IsDependencyHeaderNoOptional(line) ==
    \E verb \in {Updated, Added, Removed},
       cls \in {ClsDependencies, ClsDevDependencies, ClsPeerDependencies} :
        StartsWith(line, <<"-", " ">> \o verb \o <<" ">> \o cls)

\* /^- (updated|added|removed) (dependencies|devDependencies|...)/.test(line)
IsDependencyHeader(line) ==
    \E verb \in {Updated, Added, Removed},
       cls \in {ClsDependencies, ClsDevDependencies, ClsPeerDependencies,
                ClsOptionalDependencies} :
        StartsWith(line, <<"-", " ">> \o verb \o <<" ">> \o cls)

(***************************************************************************)
(* ChangelogService.                                                       *)
(***************************************************************************)
\* the index at which a loop over ascending indexes first hits S, or 0
FirstIndex(S) == IF S = {} THEN 0 ELSE CHOOSE i \in S : \A j \in S : i <= j

\* the version pattern without its closing bracket
FindVersionSectionOpen(lines, version) ==
    IF Truthy(version)
    THEN LET versionPattern == VersionMark \o version
         IN FirstIndex({i \in 1..Len(lines) : StartsWith(lines[i], versionPattern)})
    ELSE FirstIndex({i \in 1..Len(lines) : StartsWith(lines[i], VersionMark)})

\* a lookup that settles for the first line when it finds no version heading
FindVersionSectionNeverFails(lines, version) ==
    LET versionPattern == IF Truthy(version) THEN VersionMark \o version \o <<"]">>
                          ELSE VersionMark
        found == FirstIndex({i \in 1..Len(lines) : StartsWith(lines[i], versionPattern)})
    IN IF found = 0 THEN 1 ELSE found

FindVersionSection(lines, version) ==
    IF Truthy(version)
    THEN LET versionPattern == VersionMark \o version \o <<"]">>
         IN FirstIndex({i \in 1..Len(lines) : StartsWith(lines[i], versionPattern)})
    ELSE FirstIndex({i \in 1..Len(lines) : StartsWith(lines[i], VersionMark)})

\* the scan without its stop at the next version section
FindChangedSectionUnscoped(lines, versionLineIndex) ==
    FirstIndex({j \in (versionLineIndex + 1)..Len(lines) : Trim(lines[j]) = ChangedHeading})

FindChangedSection(lines, versionLineIndex) ==
    LET i == FirstIndex({j \in (versionLineIndex + 1)..Len(lines) :
                            \/ StartsWith(lines[j], VersionMark)
                            \/ Trim(lines[j]) = ChangedHeading})
    IN IF i # 0 /\ ~StartsWith(lines[i], VersionMark) THEN i ELSE 0

\* end index, exclusive
FindSectionEnd(lines, startIndex) ==
    LET i == FirstIndex({j \in (startIndex + 1)..Len(lines) :
                            \/ StartsWith(lines[j], SubsectionMark)
                            \/ StartsWith(lines[j], VersionMark)})
    IN IF i # 0 THEN i ELSE Len(lines) + 1

RECURSIVE TrimTrailingEmpty(_)
TrimTrailingEmpty(result) ==
    IF result # <<>> /\ Trim(result[Len(result)]) = <<>>
    THEN TrimTrailingEmpty(SubSeq(result, 1, Len(result) - 1))
    ELSE result

RECURSIVE RemoveLoop(_, _, _, _)
RemoveLoop(lines, i, skipMode, result) ==
    IF i > Len(lines) THEN result
    ELSE LET line == lines[i] IN
         IF IsDependencyHeader(line) THEN RemoveLoop(lines, i + 1, TRUE, result)
         ELSE IF skipMode /\ StartsWith(line, SubpointMark)
              THEN RemoveLoop(lines, i + 1, skipMode, result)
         ELSE LET skip2 == IF Trim(line) # <<>> /\ ~StartsWith(line, SubpointMark)
                           THEN FALSE ELSE skipMode
              IN RemoveLoop(lines, i + 1, skip2,
                            IF skip2 THEN result ELSE Append(result, line))

\* a removal step that drops the header lines and keeps their subpoints
RemoveDependencyEntriesHeadersOnly(lines) ==
    TrimTrailingEmpty(SelectSeq(lines, LAMBDA line : ~IsDependencyHeader(line)))

RemoveDependencyEntries(lines) == TrimTrailingEmpty(RemoveLoop(lines, 1, FALSE, <<>>))

HasContent(lines) == \E i \in 1..Len(lines) : Trim(lines[i]) # <<>>

\* the remainder taken from one line too far
UpdateExistingSkipsLine(lines, changedSectionIndex, formattedChanges) ==
    LET sectionEnd == FindSectionEnd(lines, changedSectionIndex)
        existingContent == SubSeq(lines, changedSectionIndex + 1, sectionEnd - 1)
        cleanedContent == RemoveDependencyEntries(existingContent)
    IN SubSeq(lines, 1, changedSectionIndex)
       \o (IF HasContent(cleanedContent) THEN <<EmptyStr>> \o cleanedContent ELSE <<>>)
       \o <<EmptyStr>> \o Split(formattedChanges)
       \o (IF sectionEnd <= Len(lines)
           THEN <<EmptyStr>> \o SubSeq(lines, sectionEnd + 1, Len(lines)) ELSE <<>>)

UpdateExistingChangedSection(lines, changedSectionIndex, formattedChanges) ==
    LET sectionEnd == FindSectionEnd(lines, changedSectionIndex)
        existingContent == SubSeq(lines, changedSectionIndex + 1, sectionEnd - 1)
        cleanedContent == RemoveDependencyEntries(existingContent)
    IN SubSeq(lines, 1, changedSectionIndex)
       \o (IF HasContent(cleanedContent) THEN <<EmptyStr>> \o cleanedContent ELSE <<>>)
       \o <<EmptyStr>> \o Split(formattedChanges)
       \o (IF sectionEnd <= Len(lines)
           THEN <<EmptyStr>> \o SubSeq(lines, sectionEnd, Len(lines)) ELSE <<>>)

RECURSIVE InsertScan(_, _, _)
\* the loop that looks for the insert index; i is the loop variable
InsertScan(lines, i, insertIndex) ==
    IF i > Len(lines) THEN insertIndex
    ELSE IF StartsWith(lines[i], VersionMark) THEN i
    ELSE IF StartsWith(lines[i], SubsectionMark)
         THEN InsertScan(lines, i + 1, FindSectionEnd(lines, i))
    ELSE InsertScan(lines, i + 1, insertIndex)

InsertIndex(lines, versionLineIndex) ==
    InsertScan(lines, versionLineIndex + 1, versionLineIndex + 1)

\* an insert that appends the new subsection to the document
InsertNewChangedSectionAtEnd(lines, versionLineIndex, formattedChanges) ==
    lines \o <<EmptyStr, ChangedHeading, EmptyStr>> \o Split(formattedChanges)

InsertNewChangedSection(lines, versionLineIndex, formattedChanges) ==
    LET insertIndex == InsertIndex(lines, versionLineIndex)
    IN SubSeq(lines, 1, insertIndex - 1)
       \o <<EmptyStr, ChangedHeading, EmptyStr>> \o Split(formattedChanges)
       \o (IF insertIndex <= Len(lines)
           THEN <<EmptyStr>> \o SubSeq(lines, insertIndex, Len(lines)) ELSE <<>>)

\* one message for both failures
VersionNotFoundMsgGeneric(version) ==
    <<"N","o"," ","v","e","r","s","i","o","n"," ","s","e","c","t","i","o","n"," ",
      "f","o","u","n","d"," ","i","n"," ","C","H","A","N","G","E","L","O","G",".","m","d">>

VersionNotFoundMsg(version) ==
    <<"V","e","r","s","i","o","n"," ","[">> \o version
    \o <<"]"," ","n","o","t"," ","f","o","u","n","d"," ","i","n"," ",
         "C","H","A","N","G","E","L","O","G",".","m","d">>
NoVersionSectionMsg ==
    <<"N","o"," ","v","e","r","s","i","o","n"," ","s","e","c","t","i","o","n"," ",
      "f","o","u","n","d"," ","i","n"," ","C","H","A","N","G","E","L","O","G",".","m","d">>

\* the guard without trim()
NothingToAddNoTrim(formattedChanges) == formattedChanges = EmptyStr

\* if (!formattedChanges.trim())
NothingToAdd(formattedChanges) == Trim(formattedChanges) = EmptyStr

\* the lines updateChangelog hands to writeFile, for a content with a version section
UpdatedLines(lines, formattedChanges, version) ==
    LET versionLineIndex == FindVersionSection(lines, version)
        changedSectionIndex == FindChangedSection(lines, versionLineIndex)
    IN IF changedSectionIndex # 0
       THEN UpdateExistingChangedSection(lines, changedSectionIndex, formattedChanges)
       ELSE InsertNewChangedSection(lines, versionLineIndex, formattedChanges)

(***************************************************************************)
(* DefaultChangelogFormatter.                                              *)
(***************************************************************************)
\* U+2192, one character of the output
Arrow == "->"

FormatUpdatedDependency(dep) ==
    SubpointMark \o <<" ">> \o dep.name \o <<" ">> \o dep.oldVersion
    \o <<" ", Arrow, " ">> \o dep.newVersion
FormatAddedDependency(dep) == SubpointMark \o <<" ">> \o dep.name \o <<"@">> \o dep.version
FormatRemovedDependency(dep) == SubpointMark \o <<" ">> \o dep.name \o <<"@">> \o dep.version

\* formatSection without its last block
FormatSectionNoRemoved(sectionName, sectionChanges) ==
    (IF Len(sectionChanges.updated) > 0
     THEN <<HeaderLine(Updated, sectionName)>>
          \o [i \in 1..Len(sectionChanges.updated) |->
                 FormatUpdatedDependency(sectionChanges.updated[i])]
     ELSE <<>>)
    \o (IF Len(sectionChanges.added) > 0
        THEN <<HeaderLine(Added, sectionName)>>
             \o [i \in 1..Len(sectionChanges.added) |->
                    FormatAddedDependency(sectionChanges.added[i])]
        ELSE <<>>)

\* formatSection with the added block before the updated block
FormatSectionAddedFirst(sectionName, sectionChanges) ==
    (IF Len(sectionChanges.added) > 0
     THEN <<HeaderLine(Added, sectionName)>>
          \o [i \in 1..Len(sectionChanges.added) |->
                 FormatAddedDependency(sectionChanges.added[i])]
     ELSE <<>>)
    \o (IF Len(sectionChanges.updated) > 0
        THEN <<HeaderLine(Updated, sectionName)>>
             \o [i \in 1..Len(sectionChanges.updated) |->
                    FormatUpdatedDependency(sectionChanges.updated[i])]
        ELSE <<>>)
    \o (IF Len(sectionChanges.removed) > 0
        THEN <<HeaderLine(Removed, sectionName)>>
             \o [i \in 1..Len(sectionChanges.removed) |->
                    FormatRemovedDependency(sectionChanges.removed[i])]
        ELSE <<>>)

\* the lines formatSection pushes to the output for one class
FormatSection(sectionName, sectionChanges) ==
    LET hasChanges == \/ Len(sectionChanges.added) > 0
                      \/ Len(sectionChanges.removed) > 0
                      \/ Len(sectionChanges.updated) > 0
    IN IF ~hasChanges THEN <<>>
       ELSE (IF Len(sectionChanges.updated) > 0
             THEN <<HeaderLine(Updated, sectionName)>>
                  \o [i \in 1..Len(sectionChanges.updated) |->
                         FormatUpdatedDependency(sectionChanges.updated[i])]
             ELSE <<>>)
         \o (IF Len(sectionChanges.added) > 0
             THEN <<HeaderLine(Added, sectionName)>>
                  \o [i \in 1..Len(sectionChanges.added) |->
                         FormatAddedDependency(sectionChanges.added[i])]
             ELSE <<>>)
         \o (IF Len(sectionChanges.removed) > 0
             THEN <<HeaderLine(Removed, sectionName)>>
                  \o [i \in 1..Len(sectionChanges.removed) |->
                         FormatRemovedDependency(sectionChanges.removed[i])]
             ELSE <<>>)

\* a formatter that renders nothing
FormatNothing(changeSet) == EmptyStr

\* changeSet: a function from the four class names to their changes
Format(changeSet) ==
    Join(FormatSection(ClsDependencies, changeSet[ClsDependencies])
         \o FormatSection(ClsDevDependencies, changeSet[ClsDevDependencies])
         \o FormatSection(ClsPeerDependencies, changeSet[ClsPeerDependencies])
         \o FormatSection(ClsOptionalDependencies, changeSet[ClsOptionalDependencies]))

(***************************************************************************)
(* DependencyComparerService.  A dependency object is a sequence of        *)
(* [name, version] entries in key insertion order, with unique names; a    *)
(* class a manifest lacks is undefined.                                    *)
(***************************************************************************)
\* UTF-16 code units of the characters package names are drawn from
Code(c) == CASE c = "B" -> 66 [] c = "a" -> 97 [] c = "b" -> 98 [] OTHER -> 0

RECURSIVE StrLess(_, _)
\* a < b as toSorted() compares strings: by code units, a proper prefix first
StrLess(a, b) ==
    IF b = <<>> THEN FALSE
    ELSE IF a = <<>> THEN TRUE
    ELSE IF Code(Head(a)) # Code(Head(b)) THEN Code(Head(a)) < Code(Head(b))
    ELSE StrLess(Tail(a), Tail(b))

RECURSIVE InsertSorted(_, _)
InsertSorted(sorted, key) ==
    IF sorted = <<>> THEN <<key>>
    ELSE IF StrLess(key, Head(sorted)) THEN <<key>> \o sorted
    ELSE <<Head(sorted)>> \o InsertSorted(Tail(sorted), key)

\* an array left in key insertion order
ToSortedKeepsOrder(keys) == keys

RECURSIVE ToSorted(_)
\* Array.from(allKeys).toSorted()
ToSorted(keys) ==
    IF keys = <<>> THEN <<>>
    ELSE InsertSorted(ToSorted(SubSeq(keys, 1, Len(keys) - 1)), keys[Len(keys)])

NoDeps == [defined |-> FALSE, entries |-> <<>>]
Deps(entries) == [defined |-> TRUE, entries |-> entries]

\* oldDeps || {}
OrEmpty(deps) == IF deps.defined THEN deps.entries ELSE <<>>

\* Object.keys(dependencies), in insertion order
ObjectKeys(entries) == [i \in 1..Len(entries) |-> entries[i].name]

\* an array where the source builds a Set
NewSetKeepsAll(elements) == elements

RECURSIVE NewSet(_)
\* new Set([...]): the first occurrence of every element, in order
NewSet(elements) ==
    IF elements = <<>> THEN <<>>
    ELSE LET front == NewSet(SubSeq(elements, 1, Len(elements) - 1))
             last == elements[Len(elements)]
         IN IF \E i \in 1..Len(front) : front[i] = last THEN front
            ELSE Append(front, last)

\* dependencies[key]
Get(entries, key) ==
    IF \E i \in 1..Len(entries) : entries[i].name = key
    THEN entries[CHOOSE i \in 1..Len(entries) : entries[i].name = key].version
    ELSE Undefined

RECURSIVE CompareLoop(_, _, _, _)
CompareLoop(keys, oldDependencies, newDependencies, acc) ==
    IF keys = <<>> THEN acc
    ELSE LET key == Head(keys)
             old == Get(oldDependencies, key)
             new == Get(newDependencies, key)
             next ==
                 IF ~Truthy(old) /\ Truthy(new)
                 THEN [acc EXCEPT !.added = Append(@, [name |-> key, version |-> new])]
                 ELSE IF Truthy(old) /\ ~Truthy(new)
                 THEN [acc EXCEPT !.removed = Append(@, [name |-> key, version |-> old])]
                 ELSE IF old # new
                 THEN [acc EXCEPT !.updated =
                          Append(@, [name |-> key, oldVersion |-> old, newVersion |-> new])]
                 ELSE acc
         IN CompareLoop(Tail(keys), oldDependencies, newDependencies, next)

\* a comparison that is skipped when either side lacks the class
CompareDependenciesBothPresent(oldDeps, newDeps) ==
    IF oldDeps.defined /\ newDeps.defined
    THEN CompareLoop(ToSorted(NewSet(ObjectKeys(oldDeps.entries) \o ObjectKeys(newDeps.entries))),
                     oldDeps.entries, newDeps.entries,
                     [added |-> <<>>, removed |-> <<>>, updated |-> <<>>])
    ELSE [added |-> <<>>, removed |-> <<>>, updated |-> <<>>]

CompareDependencies(oldDeps, newDeps) ==
    LET oldDependencies == OrEmpty(oldDeps)
        newDependencies == OrEmpty(newDeps)
        allKeys == NewSet(ObjectKeys(oldDependencies) \o ObjectKeys(newDependencies))
    IN CompareLoop(ToSorted(allKeys), oldDependencies, newDependencies,
                   [added |-> <<>>, removed |-> <<>>, updated |-> <<>>])

\* a manifest: a function from the four class names to dependency objects
Compare(oldPackageJson, newPackageJson) ==
    [cls \in ClassNames |-> CompareDependencies(oldPackageJson[cls], newPackageJson[cls])]

HasSectionChanges(c) == Len(c.added) > 0 \/ Len(c.removed) > 0 \/ Len(c.updated) > 0

\* hasChanges without its last disjunct
HasChangesNoOptional(c) ==
    \/ HasSectionChanges(c[ClsDependencies])
    \/ HasSectionChanges(c[ClsDevDependencies])
    \/ HasSectionChanges(c[ClsPeerDependencies])

HasChanges(c) ==
    \/ HasSectionChanges(c[ClsDependencies])
    \/ HasSectionChanges(c[ClsDevDependencies])
    \/ HasSectionChanges(c[ClsPeerDependencies])
    \/ HasSectionChanges(c[ClsOptionalDependencies])

(***************************************************************************)
(* Inputs of the model.                                                    *)
(***************************************************************************)
V1 == <<"1">>
V10 == <<"1", ".", "0">>
V2 == <<"2">>
NameA == <<"a">>
NameB == <<"b">>
NameUpperB == <<"B">>

HeadingV1 == <<"#","#"," ","[","1","]">>
HeadingV10 == <<"#","#"," ","[","1",".","0","]">>
AddedHeading == <<"#","#","#"," ","A","d","d","e","d">>
NoteLine == <<"-"," ","n","o","t","e">>
OldHeader == <<"-"," ">> \o Updated \o <<" ">> \o ClsDependencies
OldSubpoint == <<" "," "," "," ","-"," ","a","@","1">>
\* a hand-written bullet that begins like a machine header
ManualLookalike == OldHeader \o <<" ","o","f"," ","x">>

SeqsUpTo(S, n) == UNION {[1..k -> S] : k \in 0..n}

\* changelogs that vary in their headings
StructureLines ==
    {EmptyStr, HeadingV1, HeadingV10, ChangedHeading, AddedHeading, NoteLine}
StructureDocs == {Join(ls) : ls \in SeqsUpTo(StructureLines, MaxLines) \ {<<>>}}

\* changelogs that vary in the body of the Changed subsection of version 1
BodyLines == {EmptyStr, OldHeader, OldSubpoint, NoteLine, ManualLookalike}
BodyTails == {<<>>, <<AddedHeading>>}
BodyDocs == {Join(<<HeadingV1, ChangedHeading>> \o body \o tail) :
                body \in SeqsUpTo(BodyLines, MaxLines), tail \in BodyTails}

Documents == StructureDocs \cup BodyDocs

NoClassChanges == [added |-> <<>>, removed |-> <<>>, updated |-> <<>>]
NoPackageChanges == [cls \in ClassNames |-> NoClassChanges]

\* change-sets whose renderings are handed to updateChangelog
SampleChanges ==
    { NoPackageChanges,
      [NoPackageChanges EXCEPT
          ![ClsDependencies].updated =
              <<[name |-> NameA, oldVersion |-> V1, newVersion |-> V2]>>],
      [NoPackageChanges EXCEPT
          ![ClsDevDependencies].added = <<[name |-> NameB, version |-> V1]>>,
          ![ClsPeerDependencies].removed = <<[name |-> NameB, version |-> V2]>>,
          ![ClsOptionalDependencies].updated =
              <<[name |-> NameB, oldVersion |-> V2, newVersion |-> V10]>>] }

Blocks == {Format(c) : c \in SampleChanges} \cup {<<" ">>}
VersionArgs == {Undefined, EmptyStr, V1, V10}

(***************************************************************************)
(* The changelog merge as a state machine: a stored CHANGELOG.md and       *)
(* successive updateChangelog calls on it with the same arguments.         *)
(***************************************************************************)
NoPackage == [cls \in ClassNames |-> NoDeps]

\* format and hasChanges not called, run not started
NotFormatting == formatted = Undefined /\ detected = "unset"
NotRunning ==
    /\ pc = "idle"
    /\ env = <<>>
    /\ outputs = <<>>
    /\ failures = <<>>
    /\ events = <<>>
    /\ execs = <<>>
    /\ caught = <<>>

MergeInit ==
    /\ changelog \in Documents
    /\ original = changelog
    /\ before = changelog
    /\ argChanges \in Blocks
    /\ argVersion \in VersionArgs
    /\ outcome = "none"
    /\ thrown = EmptyStr
    /\ reads = 0
    /\ writes = 0
    /\ calls = 0
    /\ oldPkg = NoPackage
    /\ newPkg = NoPackage
    /\ changes = NoPackageChanges
    /\ compared = FALSE
    /\ NotFormatting
    /\ NotRunning

UpdateChangelog(formattedChanges, version) ==
    /\ calls < MaxCalls
    /\ calls' = calls + 1
    /\ before' = changelog
    /\ IF NothingToAdd(formattedChanges)
       THEN /\ outcome' = "nothing"
            /\ reads' = 0
            /\ writes' = 0
            /\ thrown' = EmptyStr
            /\ UNCHANGED changelog
       ELSE LET content == changelog
                lines == Split(content)
                versionLineIndex == FindVersionSection(lines, version)
            IN /\ reads' = 1
               /\ IF versionLineIndex = 0
                  THEN /\ outcome' = "threw"
                       /\ thrown' = IF Truthy(version) THEN VersionNotFoundMsg(version)
                                    ELSE NoVersionSectionMsg
                       /\ writes' = 0
                       /\ UNCHANGED changelog
                  ELSE /\ outcome' = "written"
                       /\ changelog' = Join(UpdatedLines(lines, formattedChanges, version))
                       /\ writes' = 1
                       /\ thrown' = EmptyStr
    /\ UNCHANGED <<original, argChanges, argVersion, diffVars, formatVars, runVars>>

CallUpdateChangelog == UpdateChangelog(argChanges, argVersion)

MergeNext == CallUpdateChangelog

MergeSpec == MergeInit /\ [][MergeNext]_vars

(***************************************************************************)
(* Successive updateChangelog calls as run makes them, without a version,  *)
(* or with the version of a section: the same calls on the same documents. *)
(***************************************************************************)
RepeatVersionArgs == {Undefined, V1}

RepeatInit ==
    /\ changelog \in Documents
    /\ original = changelog
    /\ before = changelog
    /\ argChanges \in Blocks
    /\ argVersion \in RepeatVersionArgs
    /\ outcome = "none"
    /\ thrown = EmptyStr
    /\ reads = 0
    /\ writes = 0
    /\ calls = 0
    /\ oldPkg = NoPackage
    /\ newPkg = NoPackage
    /\ changes = NoPackageChanges
    /\ compared = FALSE
    /\ NotFormatting
    /\ NotRunning

RepeatSpec == RepeatInit /\ [][MergeNext]_vars

(***************************************************************************)
(* The diff as a state machine: two manifests and one compare call.  One   *)
(* dependency class of the manifests is populated at a time.               *)
(***************************************************************************)
NamePool == <<NameB, NameUpperB, NameA>>
Names == {NamePool[i] : i \in 1..MaxNames}
VersionStrings == {EmptyStr, V1, V2}

IsInjective(f) == \A i, j \in DOMAIN f : f[i] = f[j] => i = j

\* dependency objects: every key order, every version string
DepObjects ==
    {NoDeps} \cup
    UNION { { Deps([i \in 1..n |-> [name |-> ns[i], version |-> vs[i]]]) :
                ns \in {f \in [1..n -> Names] : IsInjective(f)},
                vs \in [1..n -> VersionStrings] } : n \in 0..MaxNames }

DiffInit ==
    /\ \E cls \in ClassNames, old \in DepObjects, new \in DepObjects :
          /\ oldPkg = [NoPackage EXCEPT ![cls] = old]
          /\ newPkg = [NoPackage EXCEPT ![cls] = new]
    /\ changes = NoPackageChanges
    /\ compared = FALSE
    /\ changelog = EmptyStr
    /\ original = EmptyStr
    /\ before = EmptyStr
    /\ argChanges = EmptyStr
    /\ argVersion = Undefined
    /\ outcome = "none"
    /\ thrown = EmptyStr
    /\ reads = 0
    /\ writes = 0
    /\ calls = 0
    /\ NotFormatting
    /\ NotRunning

CallCompare ==
    /\ ~compared
    /\ changes' = Compare(oldPkg, newPkg)
    /\ compared' = TRUE
    /\ UNCHANGED <<oldPkg, newPkg, mergeVars, formatVars, runVars>>

DiffNext == CallCompare

DiffSpec == DiffInit /\ [][DiffNext]_vars

(***************************************************************************)
(* The formatter and hasChanges as a state machine: one change-set, one    *)
(* format call and one hasChanges call on it.  A change-set need not come  *)
(* from compare: its sequences are in any order.                           *)
(***************************************************************************)
AddedPool == {[name |-> NameA, version |-> V1], [name |-> NameB, version |-> V2]}
UpdatedPool == {[name |-> NameA, oldVersion |-> V1, newVersion |-> V2],
                [name |-> NameB, oldVersion |-> V2, newVersion |-> V10]}
ClassChangeSets ==
    {[added |-> a, removed |-> r, updated |-> u] :
        a \in SeqsUpTo(AddedPool, MaxEntries),
        r \in SeqsUpTo(AddedPool, MaxEntries),
        u \in SeqsUpTo(UpdatedPool, MaxEntries)}
SecondClassShapes ==
    {NoClassChanges,
     [NoClassChanges EXCEPT !.removed = <<[name |-> NameB, version |-> V2]>>],
     [NoClassChanges EXCEPT
         !.updated = <<[name |-> NameA, oldVersion |-> V1, newVersion |-> V2]>>,
         !.added = <<[name |-> NameB, version |-> V1]>>]}
FormatInputs ==
    {[NoPackageChanges EXCEPT ![c2] = y, ![c1] = x] :
        c1 \in ClassNames, c2 \in ClassNames,
        x \in ClassChangeSets, y \in SecondClassShapes}

FormatInit ==
    /\ changes \in FormatInputs
    /\ formatted = Undefined
    /\ detected = "unset"
    /\ oldPkg = NoPackage
    /\ newPkg = NoPackage
    /\ compared = FALSE
    /\ changelog = EmptyStr
    /\ original = EmptyStr
    /\ before = EmptyStr
    /\ argChanges = EmptyStr
    /\ argVersion = Undefined
    /\ outcome = "none"
    /\ thrown = EmptyStr
    /\ reads = 0
    /\ writes = 0
    /\ calls = 0
    /\ NotRunning

CallFormat ==
    /\ formatted = Undefined
    /\ formatted' = Format(changes)
    /\ UNCHANGED <<detected, diffVars, mergeVars, runVars>>

CallHasChanges ==
    /\ detected = "unset"
    /\ detected' = IF HasChanges(changes) THEN "true" ELSE "false"
    /\ UNCHANGED <<formatted, diffVars, mergeVars, runVars>>

FormatNext == CallFormat \/ CallHasChanges

FormatSpec == FormatInit /\ [][FormatNext]_vars

(***************************************************************************)
(* run (index.ts) as a state machine: one run of the action, step by step, *)
(* in an environment fixed at the start.  A file content is [kind, value]: *)
(* "json" parses to the manifest value, "null" parses to null, "garbage"   *)
(* and "empty" do not parse.  A message is a sequence of its pieces.       *)
(***************************************************************************)
DefaultPackageJsonPath == "package.json"
DefaultChangelogPath == "CHANGELOG.md"
\* core.getInput(name) || fallback
OrDefault(input, fallback) == IF input = "" THEN fallback ELSE input
PackageJsonPath == OrDefault(env.packageJsonPathInput, DefaultPackageJsonPath)
ChangelogPath == OrDefault(env.changelogPathInput, DefaultChangelogPath)

\* JavaScript values run handles: a manifest object or null/undefined
JsNull == [isNull |-> TRUE, classes |-> NoPackage]
JsObject(m) == [isNull |-> FALSE, classes |-> m]
\* thrown values: an Error with its message, or a string
ErrorValue(message) == [isError |-> TRUE, text |-> message]
StringValue(text) == [isError |-> FALSE, text |-> text]
NothingCaught == <<>>
\* String(value)
StringOf(value) == IF value.isError THEN <<"Error: ">> \o value.text ELSE value.text

Event(op, arg) == [op |-> op, arg |-> arg]
NoOutputs == [name \in {"changes-detected", "changelog-updated"} |-> "unset"]
Returned(value) == [threw |-> FALSE, value |-> value, error |-> NothingCaught]
Threw(error) == [threw |-> TRUE, value |-> JsNull, error |-> error]

\* JSON.parse(content)
JsonParse(content) ==
    CASE content.kind = "json" -> Returned(JsObject(content.value))
      [] content.kind = "null" -> Returned(JsNull)
      [] OTHER -> Threw(ErrorValue(<<"Unexpected token in JSON">>))

\* !content for a string | null
NoContent(content) == content.kind \in {"missing", "empty"}

\* GitService.getLastTag: null when git describe fails or prints nothing
GetLastTag(git) ==
    CASE git.lastTag = "execFails" -> Threw(ErrorValue(<<"Unable to locate executable file: git">>))
      [] git.lastTag \in {"none", "blank"} -> Returned("")
      [] OTHER -> Returned(git.lastTag)

\* GitService.getPackageJsonFromLastTag
GetPackageJsonFromLastTag(git, packageJsonPath) ==
    LET tag == GetLastTag(git)
    IN IF tag.threw THEN Threw(tag.error)
       ELSE IF tag.value = "" THEN Returned(JsNull)
       ELSE IF NoContent(git.fileAtTag) THEN Returned(JsNull)
       ELSE LET parsed == JsonParse(git.fileAtTag)
            IN IF parsed.threw
               THEN Threw(ErrorValue(<<"Failed to parse package.json from tag ", tag.value, ": ">>
                                     \o parsed.error.text))
               ELSE parsed

\* the git commands getPackageJsonFromLastTag runs: git describe in getLastTag,
\* then git show in getFileFromTag when there is a tag
GitCommands(git, packageJsonPath) ==
    LET tag == GetLastTag(git)
    IN IF tag.threw \/ tag.value = ""
       THEN <<[cmd |-> "describe", tag |-> "", path |-> ""]>>
       ELSE <<[cmd |-> "describe", tag |-> "", path |-> ""],
              [cmd |-> "show", tag |-> tag.value, path |-> packageJsonPath]>>

\* FileService.readFile of the manifest, then JSON.parse
ReadCurrentPackageJsonResult(content, packageJsonPath) ==
    IF content.kind = "unreadable"
    THEN Threw(ErrorValue(<<"Failed to read file ", packageJsonPath, ": ", "Error: EACCES">>))
    ELSE JsonParse(content)

\* validateFiles with the two checks in the opposite order
ValidateFilesChangelogFirst(existing, packageJsonPath, changelogPath) ==
    IF changelogPath \notin existing
    THEN [events |-> <<Event("fileExists", changelogPath)>>,
          result |-> Threw(ErrorValue(<<"CHANGELOG.md not found at: ", changelogPath>>))]
    ELSE IF packageJsonPath \notin existing
    THEN [events |-> <<Event("fileExists", changelogPath), Event("fileExists", packageJsonPath)>>,
          result |-> Threw(ErrorValue(<<"package.json not found at: ", packageJsonPath>>))]
    ELSE [events |-> <<Event("fileExists", changelogPath), Event("fileExists", packageJsonPath)>>,
          result |-> Returned(JsNull)]

\* validateFiles: the calls it makes and how it ends
ValidateFilesResult(existing, packageJsonPath, changelogPath) ==
    IF packageJsonPath \notin existing
    THEN [events |-> <<Event("fileExists", packageJsonPath)>>,
          result |-> Threw(ErrorValue(<<"package.json not found at: ", packageJsonPath>>))]
    ELSE IF changelogPath \notin existing
    THEN [events |-> <<Event("fileExists", packageJsonPath), Event("fileExists", changelogPath)>>,
          result |-> Threw(ErrorValue(<<"CHANGELOG.md not found at: ", changelogPath>>))]
    ELSE [events |-> <<Event("fileExists", packageJsonPath), Event("fileExists", changelogPath)>>,
          result |-> Returned(JsNull)]

\* a check that never takes the early exit
NoPreviousVersionNever(oldPackageJson) == FALSE
\* if (!oldPackageJson)
NoPreviousVersion(oldPackageJson) == oldPackageJson.isNull

\* the test on hasChanges without its negation
NoChangesBranchInverted(c) == HasChanges(c)
\* if (!dependencyComparer.hasChanges(changes))
NoChangesBranch(c) == ~HasChanges(c)

\* a message taken from String(error) in both branches
FailureMessageAlwaysString(error) == StringOf(error)
\* catch (error): error.message for an Error, String(error) otherwise
FailureMessage(error) == IF error.isError THEN error.text ELSE StringOf(error)

\* the environments of a run
Entry(name, version) == [name |-> name, version |-> version]
RunManifests ==
    { NoPackage,
      [NoPackage EXCEPT ![ClsDependencies] = Deps(<<Entry(NameA, V1), Entry(NameB, V1)>>)],
      [NoPackage EXCEPT ![ClsDependencies] = Deps(<<Entry(NameB, V1), Entry(NameA, V1)>>)],
      [NoPackage EXCEPT ![ClsDependencies] = Deps(<<Entry(NameA, V2)>>),
                        ![ClsDevDependencies] = Deps(<<Entry(NameB, V1)>>)],
      [NoPackage EXCEPT ![ClsPeerDependencies] = Deps(<<Entry(NameA, EmptyStr)>>),
                        ![ClsOptionalDependencies] = Deps(<<>>)] }
Content(kind) == [kind |-> kind, value |-> NoPackage]
JsonContents == {[kind |-> "json", value |-> m] : m \in RunManifests}
GitStates ==
    {[lastTag |-> t, fileAtTag |-> Content("missing")] : t \in {"execFails", "none", "blank"}}
    \cup {[lastTag |-> "v1", fileAtTag |-> c] :
             c \in {Content("missing"), Content("empty"), Content("garbage"), Content("null")}
                   \cup JsonContents}
PackageJsonFiles ==
    {Content("unreadable"), Content("empty"), Content("garbage"), Content("null")}
    \cup JsonContents
RunDocs ==
    { Join(<<NoteLine>>),
      Join(<<HeadingV1, AddedHeading, NoteLine>>),
      Join(<<HeadingV10, ChangedHeading, NoteLine, HeadingV1>>) }
Environments ==
    [token : {"given", "missing", "throwsString"},
     packageJsonPathInput : {"", "app/package.json"},
     changelogPathInput : {""},
     packageJsonExists : BOOLEAN,
     changelogExists : BOOLEAN,
     git : GitStates,
     packageJson : PackageJsonFiles,
     changelogReadable : BOOLEAN,
     changelogWritable : BOOLEAN]
Existing ==
    (IF env.packageJsonExists THEN {PackageJsonPath} ELSE {})
    \cup (IF env.changelogExists THEN {ChangelogPath} ELSE {})

RunInit ==
    /\ env \in Environments
    /\ changelog \in RunDocs
    /\ original = changelog
    /\ before = changelog
    /\ pc = "start"
    /\ outputs = NoOutputs
    /\ failures = <<>>
    /\ events = <<>>
    /\ execs = <<>>
    /\ caught = <<>>
    /\ oldPkg = JsNull
    /\ newPkg = JsNull
    /\ changes = NoPackageChanges
    /\ compared = FALSE
    /\ NotFormatting
    /\ argChanges = EmptyStr
    /\ argVersion = Undefined
    /\ outcome = "none"
    /\ thrown = EmptyStr
    /\ reads = 0
    /\ writes = 0
    /\ calls = 0

\* a throwing step that has set 'changes-detected' before it throws
ThrowAfterOutput(error, newEvents) ==
    /\ pc' = "catch"
    /\ caught' = <<error>>
    /\ events' = events \o newEvents
    /\ outputs' = [outputs EXCEPT !["changes-detected"] = "true"]
    /\ UNCHANGED <<failures, env>>

\* a throwing step that has called writeFile before it throws
ThrowAfterWrite(error, newEvents) ==
    /\ pc' = "catch"
    /\ caught' = <<error>>
    /\ events' = events \o newEvents \o <<Event("writeFile", ChangelogPath)>>
    /\ UNCHANGED <<outputs, failures, env>>

\* a step of the try block ends by throwing: control goes to the catch clause
Throw(error, newEvents) ==
    /\ pc' = "catch"
    /\ caught' = <<error>>
    /\ events' = events \o newEvents
    /\ UNCHANGED <<outputs, failures, env>>

\* a step of the try block completes
Goto(next, newEvents) ==
    /\ pc' = next
    /\ events' = events \o newEvents
    /\ UNCHANGED <<caught, outputs, failures, env>>

GetPathsFromInputs ==
    /\ pc = "start"
    /\ IF env.token = "missing"
       THEN Throw(ErrorValue(<<"Input required and not supplied: github-token">>),
                  <<Event("getInput", "github-token")>>)
       ELSE IF env.token = "throwsString"
       THEN Throw(StringValue(<<"String error">>), <<Event("getInput", "github-token")>>)
       ELSE Goto("init", <<Event("getInput", "github-token"),
                           Event("getInput", "package-json-path"),
                           Event("getInput", "changelog-path")>>)
    /\ UNCHANGED <<execs, mergeVars, diffVars, formatVars>>

InitServices ==
    /\ pc = "init"
    /\ Goto("validate", <<>>)
    /\ UNCHANGED <<execs, mergeVars, diffVars, formatVars>>

ValidateFiles ==
    /\ pc = "validate"
    /\ LET v == ValidateFilesResult(Existing, PackageJsonPath, ChangelogPath)
       IN IF v.result.threw THEN Throw(v.result.error, v.events)
          ELSE Goto("fetch", v.events)
    /\ UNCHANGED <<execs, mergeVars, diffVars, formatVars>>

FetchOldPackageJson ==
    /\ pc = "fetch"
    /\ LET r == GetPackageJsonFromLastTag(env.git, PackageJsonPath)
           call == <<Event("getPackageJsonFromLastTag", PackageJsonPath)>>
       IN /\ IF r.threw
             THEN Throw(r.error, call) /\ UNCHANGED oldPkg
             ELSE Goto("fetched", call) /\ oldPkg' = r.value
          /\ execs' = execs \o GitCommands(env.git, PackageJsonPath)
    /\ UNCHANGED <<mergeVars, newPkg, changes, compared, formatVars>>

\* no previous version: both outputs false, return
ExitNoPreviousVersion ==
    /\ pc = "fetched"
    /\ NoPreviousVersion(oldPkg)
    /\ outputs' = [outputs EXCEPT !["changes-detected"] = "false",
                                  !["changelog-updated"] = "false"]
    /\ events' = events \o <<Event("setOutput", "changes-detected"),
                             Event("setOutput", "changelog-updated")>>
    /\ pc' = "resolved"
    /\ UNCHANGED <<caught, failures, env, execs, mergeVars, diffVars, formatVars>>

ReadCurrentPackageJson ==
    /\ pc = "fetched"
    /\ ~NoPreviousVersion(oldPkg)
    /\ LET r == ReadCurrentPackageJsonResult(env.packageJson, PackageJsonPath)
           call == <<Event("readFile", PackageJsonPath)>>
       IN IF r.threw
          THEN Throw(r.error, call) /\ UNCHANGED newPkg
          ELSE Goto("compare", call) /\ newPkg' = r.value
    /\ UNCHANGED <<execs, mergeVars, oldPkg, changes, compared, formatVars>>

\* dependencyComparer.compare: reading a property of null throws a TypeError
RunCompare ==
    /\ pc = "compare"
    /\ IF oldPkg.isNull \/ newPkg.isNull
       THEN /\ Throw(ErrorValue(<<"Cannot read properties of null (reading 'dependencies')">>),
                     <<>>)
            /\ UNCHANGED <<changes, compared>>
       ELSE /\ Goto("compared", <<>>)
            /\ changes' = Compare(oldPkg.classes, newPkg.classes)
            /\ compared' = TRUE
    /\ UNCHANGED <<execs, mergeVars, oldPkg, newPkg, formatVars>>

\* no dependency changes: both outputs false, return
ExitNoChanges ==
    /\ pc = "compared"
    /\ NoChangesBranch(changes)
    /\ detected' = IF HasChanges(changes) THEN "true" ELSE "false"
    /\ outputs' = [outputs EXCEPT !["changes-detected"] = "false",
                                  !["changelog-updated"] = "false"]
    /\ events' = events \o <<Event("setOutput", "changes-detected"),
                             Event("setOutput", "changelog-updated")>>
    /\ pc' = "resolved"
    /\ UNCHANGED <<caught, failures, env, execs, mergeVars, diffVars, formatted>>

\* formatAndUpdateChangelog: format, then updateChangelog without a version
FormatAndUpdateChangelog ==
    /\ pc = "compared"
    /\ ~NoChangesBranch(changes)
    /\ detected' = IF HasChanges(changes) THEN "true" ELSE "false"
    /\ LET formattedChanges == Format(changes)
           version == Undefined
           lines == Split(changelog)
           versionLineIndex == FindVersionSection(lines, version)
           read == <<Event("readFile", ChangelogPath)>>
           write == <<Event("writeFile", ChangelogPath)>>
           readError == <<"Failed to read file ", ChangelogPath, ": ", "Error: EACCES">>
           writeError == <<"Failed to write file ", ChangelogPath, ": ", "Error: EACCES">>
           notFound == IF Truthy(version) THEN VersionNotFoundMsg(version)
                       ELSE NoVersionSectionMsg
       IN /\ formatted' = formattedChanges
          /\ argChanges' = formattedChanges
          /\ argVersion' = version
          /\ before' = changelog
          /\ calls' = calls + 1
          /\ IF NothingToAdd(formattedChanges)
             THEN /\ Goto("outputs", <<>>)
                  /\ outcome' = "nothing" /\ thrown' = EmptyStr
                  /\ reads' = 0 /\ writes' = 0
                  /\ UNCHANGED changelog
             ELSE IF ~env.changelogReadable
             THEN /\ Throw(ErrorValue(readError), read)
                  /\ outcome' = "threw" /\ thrown' = readError
                  /\ reads' = 0 /\ writes' = 0
                  /\ UNCHANGED changelog
             ELSE IF versionLineIndex = 0
             THEN /\ Throw(ErrorValue(notFound), read)
                  /\ outcome' = "threw" /\ thrown' = notFound
                  /\ reads' = 1 /\ writes' = 0
                  /\ UNCHANGED changelog
             ELSE IF ~env.changelogWritable
             THEN /\ Throw(ErrorValue(writeError), read \o write)
                  /\ outcome' = "threw" /\ thrown' = writeError
                  /\ reads' = 1 /\ writes' = 0
                  /\ UNCHANGED changelog
             ELSE /\ Goto("outputs", read \o write)
                  /\ outcome' = "written" /\ thrown' = EmptyStr
                  /\ reads' = 1 /\ writes' = 1
                  /\ changelog' = Join(UpdatedLines(lines, formattedChanges, version))
    /\ UNCHANGED <<execs, original, diffVars>>

SetOutputs ==
    /\ pc = "outputs"
    /\ outputs' = [outputs EXCEPT !["changes-detected"] = "true",
                                  !["changelog-updated"] = "true"]
    /\ events' = events \o <<Event("setOutput", "changes-detected"),
                             Event("setOutput", "changelog-updated")>>
    /\ pc' = "resolved"
    /\ UNCHANGED <<caught, failures, env, execs, mergeVars, diffVars, formatVars>>

\* catch (error: unknown): core.setFailed with the message; run resolves
HandleError ==
    /\ pc = "catch"
    /\ failures' = Append(failures, FailureMessage(caught[1]))
    /\ events' = Append(events, Event("setFailed", ""))
    /\ pc' = "resolved"
    /\ UNCHANGED <<caught, outputs, env, execs, mergeVars, diffVars, formatVars>>

RunNext ==
    \/ GetPathsFromInputs
    \/ InitServices
    \/ ValidateFiles
    \/ FetchOldPackageJson
    \/ ExitNoPreviousVersion
    \/ ReadCurrentPackageJson
    \/ RunCompare
    \/ ExitNoChanges
    \/ FormatAndUpdateChangelog
    \/ SetOutputs
    \/ HandleError

RunSpec == RunInit /\ [][RunNext]_vars

(***************************************************************************)
(* Vocabulary of the properties: the changelog grammar as the              *)
(* specification words it, independent of the service's loops.             *)
(***************************************************************************)
LinesBefore == Split(before)
LinesAfter == Split(changelog)
BlockLines == Split(argChanges)

Called == calls >= 1
Written == Called /\ outcome = "written"

Least(S) == CHOOSE i \in S : \A j \in S : i <= j
LeastOr(S, default) == IF S = {} THEN default ELSE Least(S)
IsBlank(s) == \A i \in 1..Len(s) : s[i] \in {" ", "\t", NL}
IsVersionHeading(l) == Len(l) >= 4 /\ l[1] = "#" /\ l[2] = "#" /\ l[3] = " " /\ l[4] = "["
IsSubsectionHeading(l) == Len(l) >= 3 /\ l[1] = "#" /\ l[2] = "#" /\ l[3] = "#"
\* a version is given when the argument is a non-empty string: an absent action
\* input reaches the program as the empty string
VersionGiven == argVersion \notin {Undefined, EmptyStr}

\* the lines that can introduce the target section
TargetCandidates(lines) ==
    IF VersionGiven
    THEN {i \in 1..Len(lines) :
             /\ IsVersionHeading(lines[i])
             /\ Len(lines[i]) >= 5 + Len(argVersion)
             /\ SubSeq(lines[i], 5, 4 + Len(argVersion)) = argVersion
             /\ lines[i][5 + Len(argVersion)] = "]"}
    ELSE {i \in 1..Len(lines) : IsVersionHeading(lines[i])}

\* one past the last body line of the subsection whose heading is line h
BodyEnd(lines, h) ==
    LeastOr({i \in (h + 1)..Len(lines) :
                IsSubsectionHeading(lines[i]) \/ IsVersionHeading(lines[i])},
            Len(lines) + 1)

\* where the target section of a document lies; 0 stands for 'there is none'
\*   target:  the line that introduces the target section
\*   end:     the first line of the next version section, or one past the last line
\*   changed: the first '### Changed' heading of the target section
\*   bodyEnd: one past the last body line of that Changed subsection
Anatomy(lines) ==
    LET t == LeastOr(TargetCandidates(lines), 0)
        e == IF t = 0 THEN 0
             ELSE LeastOr({i \in (t + 1)..Len(lines) : IsVersionHeading(lines[i])},
                          Len(lines) + 1)
        h == IF t = 0 THEN 0
             ELSE LeastOr({i \in (t + 1)..(e - 1) : Trim(lines[i]) = ChangedHeading}, 0)
    IN [target |-> t, end |-> e, changed |-> h,
        bodyEnd |-> IF h = 0 THEN 0 ELSE BodyEnd(lines, h)]

HasTarget(lines) == TargetCandidates(lines) # {}
BodyOf(lines, a) == SubSeq(lines, a.changed + 1, a.bodyEnd - 1)

\* the twelve header lines the formatter can emit
FormatterHeaders ==
    {<<"-", " ">> \o verb \o <<" ">> \o cls : verb \in Verbs, cls \in ClassNames}
IsSubpoint(l) ==
    Len(l) >= 5 /\ l[1] = " " /\ l[2] = " " /\ l[3] = " " /\ l[4] = " " /\ l[5] = "-"

\* line i of a body belongs to a machine-generated entry group: it is a header,
\* or a subpoint reached from a header through subpoints only
InGroup(body, i) ==
    \/ body[i] \in FormatterHeaders
    \/ /\ IsSubpoint(body[i])
       /\ \E h \in 1..(i - 1) :
             /\ body[h] \in FormatterHeaders
             /\ \A k \in (h + 1)..(i - 1) : IsSubpoint(body[k])

RECURSIVE Pick(_, _, _)
\* the lines of a body, in order, whose index is in keep
Pick(body, i, keep) ==
    IF i > Len(body) THEN <<>>
    ELSE (IF i \in keep THEN <<body[i]>> ELSE <<>>) \o Pick(body, i + 1, keep)

MachineLines(body) == Pick(body, 1, {i \in 1..Len(body) : InGroup(body, i)})
ManualLines(body) ==
    Pick(body, 1, {i \in 1..Len(body) : ~IsBlank(body[i]) /\ ~InGroup(body, i)})

RECURSIVE IsSubsequence(_, _)
\* the lines of a occur in b in the same order
IsSubsequence(a, b) ==
    IF a = <<>> THEN TRUE
    ELSE IF b = <<>> THEN FALSE
    ELSE IF Head(a) = Head(b) THEN IsSubsequence(Tail(a), Tail(b))
    ELSE IsSubsequence(a, Tail(b))

LastLines(lines, n) == SubSeq(lines, Len(lines) - n + 1, Len(lines))

Contains(block, lines) ==
    \E k \in 1..(Len(lines) - Len(block) + 1) :
        SubSeq(lines, k, k + Len(block) - 1) = block

\* a document with the new subsection spliced in before its line p
Spliced(lines, block, p) ==
    SubSeq(lines, 1, p - 1)
    \o <<EmptyStr, ChangedHeading, EmptyStr>> \o block
    \o (IF p <= Len(lines) THEN <<EmptyStr>> \o SubSeq(lines, p, Len(lines)) ELSE <<>>)

(***************************************************************************)
(* Properties of the changelog merge (MergeSpec).  'old' is the document   *)
(* before the most recent call, 'new' the document after it.               *)
(***************************************************************************)

\* C1: a second updateChangelog call with the same formatted block and the same
\* version leaves the document exactly as the first call wrote it.
C1_RoundTripIdempotence ==
    (calls >= 2 /\ outcome = "written") => changelog = before

\* C2: in the update path every manual line of the target Changed body (non-blank,
\* neither a formatter header nor a subpoint directly continuing one) is in the
\* written document unchanged, and the manual lines keep their order.
C2_ManualEntriesSurvive ==
    Written =>
        LET old == LinesBefore
            a == Anatomy(old)
        IN a.changed # 0 => IsSubsequence(ManualLines(BodyOf(old, a)), LinesAfter)

\* C3: a successful update leaves every line outside the body of the target Changed
\* subsection in place: in the update path the lines up to the heading and the lines
\* from the end of its body on; in the insert path every line, the written document
\* being the original with the new subsection spliced in at one position.
C3_Frame ==
    Written =>
        LET old == LinesBefore
            new == LinesAfter
            a == Anatomy(old)
            n == Len(old) - a.bodyEnd + 1
        IN IF a.changed # 0
           THEN /\ Len(new) >= a.changed + n
                /\ SubSeq(new, 1, a.changed) = SubSeq(old, 1, a.changed)
                /\ LastLines(new, n) = LastLines(old, n)
           ELSE \E p \in 1..(Len(old) + 1) : new = Spliced(old, BlockLines, p)

\* an update path with lines in the body, a heading after it, lines before it
C3_Witness ==
    /\ Written
    /\ LET old == LinesBefore
           a == Anatomy(old)
       IN /\ a.changed > a.target + 1
          /\ a.bodyEnd > a.changed + 1
          /\ a.bodyEnd <= Len(old)

\* C4: after the update path the machine-generated entry groups in the body of the
\* target Changed subsection are exactly the lines of the new formatted block, once:
\* no header or subpoint of an earlier group is left; each of the twelve header
\* lines (three verbs, four classes) is recognised as one to remove.
C4_OldEntriesReplaced ==
    Written =>
        LET old == LinesBefore
            new == LinesAfter
            b == Anatomy(new)
        IN Anatomy(old).changed # 0 =>
              /\ b.changed # 0
              /\ MachineLines(BodyOf(new, b)) = BlockLines
              /\ \A h \in FormatterHeaders : IsDependencyHeader(h)

\* an update path over a body with manual lines and other machine-generated groups
C4_Witness ==
    /\ Written
    /\ LET old == LinesBefore
           a == Anatomy(old)
       IN /\ a.changed # 0
          /\ MachineLines(BodyOf(old, a)) \notin {<<>>, BlockLines}
          /\ ManualLines(BodyOf(old, a)) # <<>>

\* C5: in the insert path the new subsection is spliced in at the next version
\* heading after the target heading, or at the end of the document if there is none.
C5_InsertPlacement ==
    Written =>
        LET old == LinesBefore
            a == Anatomy(old)
        IN a.changed = 0 => LinesAfter = Spliced(old, BlockLines, a.end)

\* C6: with a non-blank block, updateChangelog throws exactly when the document has
\* no target line; the message names the version when one was given and is the
\* 'No version section' message when none was; otherwise the call writes.
C6_SectionNotFound ==
    (Called /\ ~IsBlank(argChanges)) =>
        /\ outcome = "threw" <=> ~HasTarget(LinesBefore)
        /\ outcome # "threw" => outcome = "written"
        /\ (outcome = "threw" /\ VersionGiven) =>
              thrown = <<"V","e","r","s","i","o","n"," ","[">> \o argVersion
                       \o <<"]"," ","n","o","t"," ","f","o","u","n","d"," ","i","n"," ",
                            "C","H","A","N","G","E","L","O","G",".","m","d">>
        /\ (outcome = "threw" /\ ~VersionGiven) =>
              thrown = <<"N","o"," ","v","e","r","s","i","o","n"," ","s","e","c","t",
                         "i","o","n"," ","f","o","u","n","d"," ","i","n"," ",
                         "C","H","A","N","G","E","L","O","G",".","m","d">>

\* a named version is missing from a document that has other version sections
C6_Witness ==
    /\ outcome = "threw"
    /\ VersionGiven
    /\ \E i \in 1..Len(LinesBefore) : IsVersionHeading(LinesBefore[i])

\* C7: with an empty or all-whitespace block, updateChangelog does not read, does
\* not write and does not throw, whatever the version and the document.
C7_MergeNoOp ==
    (Called /\ IsBlank(argChanges)) =>
        /\ reads = 0
        /\ writes = 0
        /\ outcome = "nothing"
        /\ thrown = EmptyStr
        /\ changelog = before

\* a whitespace block, a version, a document without that version section
C7_Witness ==
    /\ Called
    /\ argChanges = <<" ">>
    /\ VersionGiven
    /\ ~HasTarget(LinesBefore)

\* C8: the section that is modified is the one introduced by the first line that
\* starts with '## [v]' for a given version v, or by the first line that starts
\* with '## [' when none is given: the document is unchanged up to that line and
\* from the next version heading on, and the block lies between the two.
C8_TargetSelection ==
    Written =>
        LET old == LinesBefore
            new == LinesAfter
            a == Anatomy(old)
            n == Len(old) - a.end + 1
        IN /\ a.target # 0
           /\ Len(new) >= a.target + n
           /\ SubSeq(new, 1, a.target) = SubSeq(old, 1, a.target)
           /\ LastLines(new, n) = LastLines(old, n)
           /\ Contains(BlockLines, SubSeq(new, a.target + 1, Len(new) - n))

\* a given version whose heading follows the heading of a version it is a prefix of
C8_Witness ==
    /\ Written
    /\ argVersion = V1
    /\ LET old == LinesBefore
       IN \E i \in 1..(Anatomy(old).target - 1) : StartsWith(old[i], HeadingV10)

(***************************************************************************)
(* Properties of the diff (DiffSpec).                                      *)
(***************************************************************************)
KeySet(deps) == IF deps.defined THEN {deps.entries[i].name : i \in 1..Len(deps.entries)} ELSE {}
ValueOf(deps, name) ==
    deps.entries[CHOOSE i \in 1..Len(deps.entries) : deps.entries[i].name = name].version
Elements(seq) == {seq[i] : i \in 1..Len(seq)}
NamesIn(seq) == [i \in 1..Len(seq) |-> seq[i].name]
Occurrences(seq, x) == Cardinality({i \in 1..Len(seq) : seq[i] = x})

\* C9: compare puts a name in 'added' with the new version iff it is a key of the
\* new map only, in 'removed' with the old version iff it is a key of the old map
\* only, in 'updated' with both versions iff it is a key of both maps with different
\* version strings, and nowhere iff it is a key of both with equal strings.
C9_DiffClassification ==
    compared =>
        \A cls \in ClassNames :
            LET old == oldPkg[cls]
                new == newPkg[cls]
                c == changes[cls]
            IN /\ Elements(c.added) =
                     {[name |-> k, version |-> ValueOf(new, k)] :
                         k \in KeySet(new) \ KeySet(old)}
               /\ Elements(c.removed) =
                     {[name |-> k, version |-> ValueOf(old, k)] :
                         k \in KeySet(old) \ KeySet(new)}
               /\ Elements(c.updated) =
                     {[name |-> k, oldVersion |-> ValueOf(old, k),
                       newVersion |-> ValueOf(new, k)] :
                         k \in {x \in KeySet(old) \cap KeySet(new) :
                                   ValueOf(old, x) # ValueOf(new, x)}}

\* C10: in every result of compare, per class, no name occurs twice in added,
\* removed and updated taken together; a key of the old or new map occurs in them
\* iff it is not a key of both with equal version strings; no other name occurs.
C10_DiffPartition ==
    compared =>
        \A cls \in ClassNames :
            LET old == oldPkg[cls]
                new == newPkg[cls]
                c == changes[cls]
                listed == NamesIn(c.added) \o NamesIn(c.removed) \o NamesIn(c.updated)
                Unchanged(k) == /\ k \in KeySet(old) \cap KeySet(new)
                                /\ ValueOf(old, k) = ValueOf(new, k)
            IN /\ \A k \in Elements(listed) : Occurrences(listed, k) = 1
               /\ Elements(listed) \subseteq KeySet(old) \cup KeySet(new)
               /\ \A k \in KeySet(old) \cup KeySet(new) :
                     k \in Elements(listed) <=> ~Unchanged(k)

\* a class with an updated, unchanged or one-sided name next to another change
C10_Witness ==
    /\ compared
    /\ \E cls \in ClassNames :
          /\ changes[cls].updated # <<>>
          /\ changes[cls].added # <<>> \/ changes[cls].removed # <<>>
          /\ EmptyStr \in {oldPkg[cls].entries[i].version : i \in 1..Len(oldPkg[cls].entries)}

\* ordinal order of the package names in use: "B" (66) < "a" (97) < "b" (98)
NameRank(n) == CHOOSE i \in 1..3 : <<NameUpperB, NameA, NameB>>[i] = n
StrictlyAscending(seq) ==
    \A i \in 1..(Len(seq) - 1) : NameRank(seq[i].name) < NameRank(seq[i + 1].name)

\* the same name -> version pairs, inserted in ordinal order of the names
ByRank(deps) ==
    IF ~deps.defined THEN deps
    ELSE LET E == Elements(deps.entries)
             Below(e) == Cardinality({f \in E : NameRank(f.name) <= NameRank(e.name)})
         IN Deps([i \in 1..Len(deps.entries) |-> CHOOSE e \in E : Below(e) = i])
\* the same pairs, inserted in the opposite order
Reversed(deps) ==
    IF ~deps.defined THEN deps
    ELSE Deps([i \in 1..Len(deps.entries) |-> deps.entries[Len(deps.entries) + 1 - i]])

\* C11: each of added, removed and updated is strictly ascending by package name in
\* ordinal order, and compare returns the same result for the same name -> version
\* pairs whatever the insertion order of the keys (in name order, in reverse order).
C11_DiffDeterminism ==
    compared =>
        \A cls \in ClassNames :
            LET c == changes[cls]
                old == oldPkg[cls]
                new == newPkg[cls]
            IN /\ StrictlyAscending(c.added)
               /\ StrictlyAscending(c.removed)
               /\ StrictlyAscending(c.updated)
               /\ c = CompareDependencies(ByRank(old), ByRank(new))
               /\ c = CompareDependencies(Reversed(old), Reversed(ByRank(new)))

\* two names added from a map whose keys were not inserted in name order
C11_Witness ==
    /\ compared
    /\ \E cls \in ClassNames :
          /\ Len(changes[cls].added) >= 2
          /\ newPkg[cls] # ByRank(newPkg[cls])

\* a manifest with every absent class present as an empty map
AllPresent(pkg) == [cls \in ClassNames |-> IF pkg[cls].defined THEN pkg[cls] ELSE Deps(<<>>)]

\* C12: the result of compare on manifests that lack classes is the result on the
\* same manifests with each absent class present as an empty map; when a class is
\* absent from both, its three sequences are empty.
C12_MissingClassIsEmpty ==
    compared =>
        /\ changes = Compare(AllPresent(oldPkg), AllPresent(newPkg))
        /\ changes = Compare(oldPkg, AllPresent(newPkg))
        /\ changes = Compare(AllPresent(oldPkg), newPkg)
        /\ \A cls \in ClassNames :
              (~oldPkg[cls].defined /\ ~newPkg[cls].defined) => changes[cls] = NoClassChanges

\* a class absent from one manifest and populated in the other, and reported
C12_Witness ==
    /\ compared
    /\ \E cls \in ClassNames :
          /\ oldPkg[cls].defined # newPkg[cls].defined
          /\ changes[cls] # NoClassChanges
          /\ \E other \in ClassNames : ~oldPkg[other].defined /\ ~newPkg[other].defined

(***************************************************************************)
(* Properties of hasChanges and of the formatter (FormatSpec).             *)
(***************************************************************************)
\* the twelve sequences of a change-set
SequencesOf(cs) ==
    {cs[cls].added : cls \in ClassNames} \cup {cs[cls].removed : cls \in ClassNames}
    \cup {cs[cls].updated : cls \in ClassNames}

\* C13: hasChanges returns true iff at least one of the twelve sequences of the
\* change-set is non-empty, and false iff all of them are empty.
C13_HasChanges ==
    detected # "unset" =>
        /\ detected = "true" <=> \E q \in SequencesOf(changes) : q # <<>>
        /\ detected = "false" <=> \A q \in SequencesOf(changes) : q = <<>>

\* the only entry of the change-set is a removed optional dependency
C13_Witness ==
    /\ detected = "true"
    /\ changes[ClsOptionalDependencies].removed # <<>>
    /\ \A q \in SequencesOf(changes) \ {changes[ClsOptionalDependencies].removed} : q = <<>>

\* C14: the formatter's output is the empty string iff hasChanges is false.
C14_FormatNoOp ==
    (formatted # Undefined /\ detected # "unset") =>
        (formatted = EmptyStr <=> detected = "false")

\* both calls made on the change-set without changes
C14_Witness ==
    /\ formatted = EmptyStr
    /\ detected = "false"
    /\ changes = NoPackageChanges

\* the reference rendering: every line with its line break, the last break dropped
RefUpdatedLine(e) ==
    <<" "," "," "," ","-"," ">> \o e.name \o <<" ">> \o e.oldVersion
    \o <<" ", "->", " ">> \o e.newVersion
RefVersionedLine(e) == <<" "," "," "," ","-"," ">> \o e.name \o <<"@">> \o e.version
RefGroup(verb, cls, seq, Line(_)) ==
    IF seq = <<>> THEN <<>>
    ELSE <<(<<"-", " ">> \o verb \o <<" ">> \o cls)>> \o [i \in 1..Len(seq) |-> Line(seq[i])]
RefClass(cls, c) ==
    RefGroup(<<"u","p","d","a","t","e","d">>, cls, c.updated, RefUpdatedLine)
    \o RefGroup(<<"a","d","d","e","d">>, cls, c.added, RefVersionedLine)
    \o RefGroup(<<"r","e","m","o","v","e","d">>, cls, c.removed, RefVersionedLine)
RefLines(cs) ==
    RefClass(<<"d","e","p","e","n","d","e","n","c","i","e","s">>, cs[ClsDependencies])
    \o RefClass(<<"d","e","v","D","e","p","e","n","d","e","n","c","i","e","s">>,
                cs[ClsDevDependencies])
    \o RefClass(<<"p","e","e","r","D","e","p","e","n","d","e","n","c","i","e","s">>,
                cs[ClsPeerDependencies])
    \o RefClass(<<"o","p","t","i","o","n","a","l","D","e","p","e","n","d","e","n","c","i","e","s">>,
                cs[ClsOptionalDependencies])
RECURSIVE Terminated(_)
Terminated(lines) ==
    IF lines = <<>> THEN <<>> ELSE Head(lines) \o <<NL>> \o Terminated(Tail(lines))
RefText(cs) ==
    LET t == Terminated(RefLines(cs))
    IN IF t = <<>> THEN <<>> ELSE SubSeq(t, 1, Len(t) - 1)

\* C15: the formatter's output is the reference rendering: classes in the fixed
\* order, per class the groups updated, added, removed, a header only for a
\* non-empty sequence followed by one line per entry in sequence order; the text
\* has no blank line and neither starts nor ends with a line break.
C15_FormatRendering ==
    formatted # Undefined =>
        /\ formatted = RefText(changes)
        /\ \A i \in 1..(Len(formatted) - 1) : ~(formatted[i] = NL /\ formatted[i + 1] = NL)
        /\ formatted # EmptyStr => formatted[1] # NL /\ formatted[Len(formatted)] # NL

\* one class with all three groups, two entries of a group not in name order, and
\* a second class with changes
C15_Witness ==
    /\ formatted # Undefined
    /\ \E cls \in ClassNames :
          /\ changes[cls].updated # <<>>
          /\ changes[cls].removed # <<>>
          /\ Len(changes[cls].added) = 2
          /\ changes[cls].added[1].name = NameB
          /\ changes[cls].added[2].name = NameA
          /\ \E other \in ClassNames \ {cls} : changes[other] # NoClassChanges

(***************************************************************************)
(* Properties of a run of the action (RunSpec).                            *)
(***************************************************************************)
Resolved == pc = "resolved"
Ops(op) == {i \in 1..Len(events) : events[i].op = op}
CallsOf(op, arg) == {i \in 1..Len(events) : events[i].op = op /\ events[i].arg = arg}
NoFailure == failures = <<>> /\ caught = <<>> /\ Ops("setFailed") = {}
BothOutputs(value) ==
    outputs["changes-detected"] = value /\ outputs["changelog-updated"] = value
\* the paths the inputs name
ManifestPath == IF env.packageJsonPathInput = "" THEN "package.json"
                ELSE env.packageJsonPathInput
NotesPath == IF env.changelogPathInput = "" THEN "CHANGELOG.md" ELSE env.changelogPathInput
\* the inputs are read and both files exist
Validated == env.token = "given" /\ env.packageJsonExists /\ env.changelogExists
\* what run does up to and including the call of the version-history provider
EventsUntilFetch ==
    <<[op |-> "getInput", arg |-> "github-token"],
      [op |-> "getInput", arg |-> "package-json-path"],
      [op |-> "getInput", arg |-> "changelog-path"],
      [op |-> "fileExists", arg |-> ManifestPath],
      [op |-> "fileExists", arg |-> NotesPath],
      [op |-> "getPackageJsonFromLastTag", arg |-> ManifestPath]>>
\* the calls of a run that writes the changelog
EventsOfFullRun ==
    EventsUntilFetch
    \o <<[op |-> "readFile", arg |-> ManifestPath],
         [op |-> "readFile", arg |-> NotesPath],
         [op |-> "writeFile", arg |-> NotesPath],
         [op |-> "setOutput", arg |-> "changes-detected"],
         [op |-> "setOutput", arg |-> "changelog-updated"]>>
SetBothOutputs ==
    <<[op |-> "setOutput", arg |-> "changes-detected"],
      [op |-> "setOutput", arg |-> "changelog-updated"]>>

\* a dependency map as a set of name -> version pairs; an absent class has none
MapOf(deps) == IF deps.defined THEN Elements(deps.entries) ELSE {}
SameDependencyMaps(a, b) == \A cls \in ClassNames : MapOf(a[cls]) = MapOf(b[cls])

\* both manifests are there and hold the same dependency maps
IdenticalManifests ==
    /\ Validated
    /\ env.git.lastTag = "v1"
    /\ env.git.fileAtTag.kind = "json"
    /\ env.packageJson.kind = "json"
    /\ SameDependencyMaps(env.git.fileAtTag.value, env.packageJson.value)

\* C16: a run on a tagged manifest and a current manifest with identical dependency
\* maps finds hasChanges false, sets both outputs to false, neither reads nor writes
\* the changelog and reports no failure.
C16_NoChangeRun ==
    (Resolved /\ IdenticalManifests) =>
        /\ detected = "false"
        /\ BothOutputs("false")
        /\ CallsOf("readFile", NotesPath) = {}
        /\ Ops("writeFile") = {}
        /\ changelog = original
        /\ NoFailure

\* the same pairs with the keys in another order
C16_Witness ==
    /\ Resolved
    /\ IdenticalManifests
    /\ env.git.fileAtTag.value # env.packageJson.value

\* the version-history provider has no manifest: no tag, or none at the tag
NoManifestAtLastTag ==
    \/ env.git.lastTag \in {"none", "blank"}
    \/ env.git.lastTag = "v1" /\ env.git.fileAtTag.kind \in {"missing", "empty", "null"}

\* C17: when the version-history provider returns no manifest, the run sets both
\* outputs to false right after that call, reads no file, writes no file and
\* reports no failure.
C17_NoPriorTag ==
    (Resolved /\ Validated /\ NoManifestAtLastTag) =>
        /\ BothOutputs("false")
        /\ events = EventsUntilFetch \o SetBothOutputs
        /\ Ops("readFile") = {} /\ Ops("writeFile") = {}
        /\ changelog = original
        /\ NoFailure

\* a tag exists but holds no manifest at the path
C17_Witness ==
    /\ Resolved
    /\ Validated
    /\ env.git.lastTag = "v1"
    /\ env.git.fileAtTag.kind = "missing"

\* C18: when the manifest path or the changelog path does not exist, the run fails
\* with the 'not found at' message of the first missing file, the manifest being
\* checked first; the version-history provider is not called, no file is read or
\* written and no output is set.
C18_InputValidation ==
    (Resolved /\ env.token = "given" /\ ~(env.packageJsonExists /\ env.changelogExists)) =>
        /\ failures = << IF ~env.packageJsonExists
                         THEN <<"package.json not found at: ", ManifestPath>>
                         ELSE <<"CHANGELOG.md not found at: ", NotesPath>> >>
        /\ Ops("getPackageJsonFromLastTag") = {}
        /\ Ops("readFile") = {} /\ Ops("writeFile") = {}
        /\ Ops("setOutput") = {}
        /\ outputs = [name \in DOMAIN outputs |-> "unset"]
        /\ changelog = original

\* both files are missing, at a path given as an input
C18_Witness ==
    /\ Resolved
    /\ env.token = "given"
    /\ ~env.packageJsonExists /\ ~env.changelogExists
    /\ env.packageJsonPathInput # ""

\* C19: when a step of run throws, run still resolves; it reports failure exactly
\* once, with the message of a thrown Error or the text of another thrown value;
\* what run did is an initial part of the full run followed only by setFailed (no
\* step repeated, none after the throw) and no output is set; without a throw no
\* failure is reported.
C19_FailureFunnel ==
    /\ pc \in {"start", "init", "validate", "fetch", "fetched", "compare", "compared",
               "outputs", "catch", "resolved"}
    /\ caught # <<>> => pc \in {"catch", "resolved"}
    /\ caught = <<>> => failures = <<>> /\ Ops("setFailed") = {}
    /\ (Resolved /\ caught # <<>>) =>
          /\ failures = <<caught[1].text>>
          /\ \E k \in 0..9 :
                events = SubSeq(EventsOfFullRun, 1, k) \o <<[op |-> "setFailed", arg |-> ""]>>
          /\ outputs = [name \in DOMAIN outputs |-> "unset"]
    /\ (Resolved /\ env.token = "throwsString") => failures = << <<"String error">> >>
    /\ (Resolved /\ env.token = "missing") =>
          failures = << <<"Input required and not supplied: github-token">> >>

\* an Error thrown by the merge after the changelog was read
C19_Witness ==
    /\ Resolved
    /\ caught # <<>>
    /\ caught[1].isError
    /\ CallsOf("readFile", NotesPath) # {}
    /\ Ops("writeFile") = {}

PublisherOps == {"configureGit", "stageFile", "commit", "push"}
PublisherCalls == {i \in 1..Len(events) : events[i].op \in PublisherOps}

\* C21: a resolved run that detected changes and wrote the changelog has called
\* configureGit, stageFile with the changelog path, commit and push, in that order,
\* after the write; a run that detected no changes has called none of them.
C21_PublishChange ==
    Resolved =>
        /\ (detected = "true" /\ writes = 1) =>
              \E c \in Ops("configureGit"), s \in CallsOf("stageFile", NotesPath),
                 m \in Ops("commit"), p \in Ops("push") :
                 /\ \A w \in Ops("writeFile") : w < c
                 /\ c < s /\ s < m /\ m < p
        /\ detected # "true" => PublisherCalls = {}

\* getPackageJsonFromLastTag has just returned or thrown
JustFetched ==
    /\ events # <<>>
    /\ events[Len(events)].op = "getPackageJsonFromLastTag"
Shown == {i \in 1..Len(execs) : execs[i].cmd = "show"}
\* the parse error of getPackageJsonFromLastTag: names the tag, carries the decode failure
IsParseErrorOfTag(error, tag) ==
    /\ error.isError
    /\ Len(error.text) > 3
    /\ SubSeq(error.text, 1, 3) = <<"Failed to parse package.json from tag ", tag, ": ">>
    /\ SubSeq(error.text, 4, Len(error.text)) = JsonParse(Content("garbage")).error.text

\* C22: getPackageJsonFromLastTag returns null without asking for a file when there
\* is no tag, returns null when the path is not in the latest tag, returns the
\* decoded manifest when the content at the tag is well-formed JSON, and throws the
\* parse error naming the tag when the content is there but not well-formed, the
\* empty content included.
C22_ManifestAtLatestTag ==
    JustFetched =>
        LET git == env.git
        IN CASE git.lastTag \in {"none", "blank"} ->
                    pc = "fetched" /\ oldPkg = JsNull /\ Shown = {}
             [] git.lastTag = "v1" /\ git.fileAtTag.kind = "missing" ->
                    pc = "fetched" /\ oldPkg = JsNull
             [] git.lastTag = "v1" /\ git.fileAtTag.kind = "json" ->
                    pc = "fetched" /\ oldPkg = JsObject(git.fileAtTag.value)
             [] git.lastTag = "v1" /\ git.fileAtTag.kind = "null" ->
                    pc = "fetched" /\ oldPkg = JsNull
             [] git.lastTag = "v1" /\ git.fileAtTag.kind \in {"garbage", "empty"} ->
                    /\ pc = "catch"
                    /\ caught # <<>>
                    /\ IsParseErrorOfTag(caught[1], "v1")
             [] OTHER -> TRUE

(***************************************************************************)
(* Further properties of the changelog merge (MergeSpec, RepeatSpec).                  *)
(***************************************************************************)
\* a line that matches the header pattern: it begins with a formatter header
MatchesHeaderPattern(l) == \E h \in FormatterHeaders : StartsWith(l, h)
\* line i of a body is a header line, or one of the subpoints that immediately
\* follow a header line
InEntryGroup(body, i) ==
    \/ MatchesHeaderPattern(body[i])
    \/ /\ IsSubpoint(body[i])
       /\ \E h \in 1..(i - 1) :
             /\ MatchesHeaderPattern(body[h])
             /\ \A k \in (h + 1)..(i - 1) : IsSubpoint(body[k])
\* a span without its run of trailing blank lines
WithoutTrailingBlanks(span) ==
    SubSeq(span, 1, LeastOr({n \in 0..Len(span) :
                                \A k \in (n + 1)..Len(span) : IsBlank(span[k])}, 0))
\* the body with exactly the lines of the entry groups removed, trailing blanks trimmed
CleanedSpan(body) ==
    WithoutTrailingBlanks(Pick(body, 1, {i \in 1..Len(body) : ~InEntryGroup(body, i)}))

\* C23: in the update path the written document holds, between the Changed heading
\* and the new block, the original body with exactly the lines of the entry groups
\* removed and the trailing blank lines trimmed; every other line of the body is
\* kept verbatim and in order.
C23_CleanedBody ==
    Written =>
        LET old == LinesBefore
            a == Anatomy(old)
            cleaned == CleanedSpan(BodyOf(old, a))
        IN a.changed # 0 =>
              LinesAfter =
                  SubSeq(old, 1, a.changed)
                  \o (IF \E i \in 1..Len(cleaned) : ~IsBlank(cleaned[i])
                      THEN <<EmptyStr>> \o cleaned ELSE <<>>)
                  \o <<EmptyStr>> \o BlockLines
                  \o (IF a.bodyEnd <= Len(old)
                      THEN <<EmptyStr>> \o SubSeq(old, a.bodyEnd, Len(old)) ELSE <<>>)

\* C24: every line of the formatted block is a header the merger recognises or a
\* subpoint directly following one, so the merger's removal step leaves no line of
\* the block; conversely a line of the Changed body that the removal step takes
\* for a header is one of the header lines the formatter emits.
C24_SharedGrammar ==
    Written =>
        LET old == LinesBefore
            a == Anatomy(old)
            body == BodyOf(old, a)
        IN /\ \A i \in 1..Len(BlockLines) :
                 \/ IsDependencyHeader(BlockLines[i]) /\ BlockLines[i] \in FormatterHeaders
                 \/ i > 1 /\ IsSubpoint(BlockLines[i]) /\ InGroup(BlockLines, i)
           /\ RemoveDependencyEntries(BlockLines) = <<>>
           /\ a.changed # 0 =>
                 \A i \in 1..Len(body) :
                     (~IsBlank(body[i]) /\ RemoveDependencyEntries(<<body[i]>>) = <<>>)
                         => body[i] \in FormatterHeaders

\* the '### Changed' headings of a document
ChangedHeadings(lines) == {i \in 1..Len(lines) : Trim(lines[i]) = ChangedHeading}

\* C25: the Changed subsection that updateChangelog updates lies strictly between
\* the target version heading and the next '## [' line; when the target section has
\* none, a new subsection is inserted even if a later version section has one, and
\* everything from the next version heading on, that later subsection included, is
\* left unchanged.
C25_ChangedLookupScoped ==
    Written =>
        LET old == LinesBefore
            new == LinesAfter
            a == Anatomy(old)
            found == FindChangedSection(old, FindVersionSection(old, argVersion))
            rest == Len(old) - a.end + 1
        IN /\ found = a.changed
           /\ found # 0 =>
                 /\ a.target < found /\ found < a.end
                 /\ \A k \in (a.target + 1)..found : ~IsVersionHeading(old[k])
                 /\ Cardinality(ChangedHeadings(new)) = Cardinality(ChangedHeadings(old))
           /\ found = 0 =>
                 /\ Cardinality(ChangedHeadings(new)) = Cardinality(ChangedHeadings(old)) + 1
                 /\ \E p \in (a.target + 1)..a.end : new = Spliced(old, BlockLines, p)
           /\ Len(new) >= rest
           /\ LastLines(new, rest) = LastLines(old, rest)

\* the target section has no Changed subsection, a later version section has one
C25_Witness ==
    /\ Written
    /\ LET old == LinesBefore
           a == Anatomy(old)
       IN /\ a.changed = 0
          /\ \E i \in ChangedHeadings(old) : i > a.end /\ i < Len(old)

(***************************************************************************)
(* Further properties of a run of the action (RunSpec).                    *)
(***************************************************************************)
\* every call of the first kind comes before every call of the second kind
AllBefore(first, second) == \A i \in first, j \in second : i < j
Validations == Ops("fileExists")
Fetches == Ops("getPackageJsonFromLastTag")
ManifestReads == CallsOf("readFile", ManifestPath)
NotesReads == CallsOf("readFile", NotesPath)
NotesWrites == Ops("writeFile")

\* C26: a run validates the paths, then fetches the manifest of the last tag, then
\* reads the current manifest, then reads the changelog, then writes the changelog;
\* each of the three resources is read at most once, the changelog is written at
\* most once, and it is written only after all reads and only when the changelog
\* has a version section.
C26_AccessOrder ==
    /\ AllBefore(Validations, Fetches)
    /\ AllBefore(Fetches, ManifestReads)
    /\ AllBefore(ManifestReads, NotesReads)
    /\ AllBefore(NotesReads, NotesWrites)
    /\ Fetches # {} => Validations = CallsOf("fileExists", ManifestPath)
                                       \cup CallsOf("fileExists", NotesPath)
                       /\ Cardinality(Validations) = 2
    /\ ManifestReads # {} => Fetches # {}
    /\ NotesReads # {} => ManifestReads # {}
    /\ NotesWrites # {} =>
          /\ NotesReads # {}
          /\ NotesWrites = CallsOf("writeFile", NotesPath)
          /\ \E i \in 1..Len(Split(original)) : IsVersionHeading(Split(original)[i])
    /\ Cardinality(Fetches) <= 1 /\ Cardinality(Shown) <= 1 /\ Len(execs) <= 2
    /\ Cardinality(ManifestReads) <= 1
    /\ Cardinality(NotesReads) <= 1
    /\ Cardinality(NotesWrites) <= 1
    /\ Ops("readFile") = ManifestReads \cup NotesReads
    /\ writes <= 1 /\ writes = 1 => NotesWrites # {}
    /\ changelog # original => writes = 1

\* a resolved run that made all five accesses
C26_Witness ==
    /\ Resolved
    /\ Validations # {} /\ Fetches # {} /\ Shown # {}
    /\ ManifestReads # {} /\ NotesReads # {} /\ NotesWrites # {}
    /\ writes = 1

OutputsSet == \A name \in DOMAIN outputs : outputs[name] # "unset"
OutputsUnset == \A name \in DOMAIN outputs : outputs[name] = "unset"
FailureReported == failures # <<>>

\* C27: a resolved run has either reported failure, once, or set both outputs, never
\* both and never neither; outputs that are set have the same value, both true or
\* both false; a run that detected changes and then failed in the merge has set
\* neither output.
C27_RunOutcome ==
    /\ OutputsSet \/ OutputsUnset
    /\ OutputsSet => BothOutputs("true") \/ BothOutputs("false")
    /\ Len(failures) <= 1
    /\ ~(FailureReported /\ OutputsSet)
    /\ Resolved =>
          /\ FailureReported \/ OutputsSet
          /\ FailureReported <=> Ops("setFailed") # {}
          /\ OutputsSet <=> Ops("setOutput") # {}
          /\ (detected = "true" /\ outcome = "threw") => OutputsUnset /\ FailureReported

\* changes were detected and the changelog has no version section
C27_Witness ==
    /\ Resolved
    /\ detected = "true"
    /\ outcome = "threw"
    /\ thrown = NoVersionSectionMsg

\* the errors updateChangelog raises before it writes
ReadFailure == <<"Failed to read file ", NotesPath, ": ", "Error: EACCES">>
RaisedBeforeWrite == outcome = "threw" /\ thrown \in {NoVersionSectionMsg, ReadFailure}

\* C28: when updateChangelog raises because the changelog has no version section or
\* because reading it fails, writeFile has not been called and the stored changelog
\* is what it was before the call.
C28_NoWriteOnFailedMerge ==
    RaisedBeforeWrite =>
        /\ Ops("writeFile") = {}
        /\ writes = 0
        /\ changelog = before
        /\ changelog = original
        /\ caught # <<>> /\ caught[1] = ErrorValue(thrown)

\* the read of the changelog failed
C28_Witness ==
    /\ Resolved
    /\ outcome = "threw"
    /\ thrown = ReadFailure
    /\ detected = "true"

\* the target section of the original document has a Changed subsection whose body
\* holds only blank lines and machine-generated entry groups
OnlyMachineContent ==
    LET first == Split(original)
        a == Anatomy(first)
        body == BodyOf(first, a)
    IN /\ a.changed # 0
       /\ \A i \in 1..Len(body) : IsBlank(body[i]) \/ InGroup(body, i)

\* C29: on a document whose target Changed body holds only blank lines and
\* machine-generated entry groups, a second updateChangelog call with the same
\* non-empty formatted block leaves the document as the first call wrote it, with
\* or without a heading after the subsection.
C29_IdempotentWithoutManualContent ==
    (calls >= 2 /\ outcome = "written" /\ OnlyMachineContent) => changelog = before

\* a second call on a body with a blank line and an old entry group, a heading after it
C29_Witness ==
    /\ calls = 2
    /\ outcome = "written"
    /\ OnlyMachineContent
    /\ LET first == Split(original)
           a == Anatomy(first)
           body == BodyOf(first, a)
       IN /\ \E i \in 1..Len(body) : IsBlank(body[i])
          /\ \E i \in 1..Len(body) : InGroup(body, i)
          /\ a.bodyEnd <= Len(first)
    /\ changelog # original

\* the lines of a document that are not blank, do not match the header pattern and
\* do not start with four spaces and '-'
IsHandWritten(l) == ~IsBlank(l) /\ ~MatchesHeaderPattern(l) /\ ~IsSubpoint(l)
HandWritten(lines) == SelectSeq(lines, IsHandWritten)
\* a sequence with one '### Changed' line put in at some position
WithOneChangedHeading(seq) ==
    {SubSeq(seq, 1, p) \o <<ChangedHeading>> \o SubSeq(seq, p + 1, Len(seq)) :
        p \in 0..Len(seq)}

\* C30: after any number of successful updateChangelog calls on a document, its
\* hand-written lines (not blank, not matching the header pattern, not starting
\* with four spaces and '-') are all still there, as often as in the original and
\* in the same order, and at most one '### Changed' heading has been added.
C30_ManualContentKept ==
    Written =>
        LET first == Split(original)
            kept == HandWritten(LinesAfter)
        IN /\ \/ kept = HandWritten(first)
              \/ /\ Anatomy(first).changed = 0
                 /\ kept \in WithOneChangedHeading(HandWritten(first))
           /\ Cardinality(ChangedHeadings(LinesAfter))
                 <= Cardinality(ChangedHeadings(first)) + 1

\* a second successful call on a document with a hand-written line, a later
\* version section and no Changed subsection in the target section
C30_Witness ==
    /\ calls = 2
    /\ Written
    /\ LET first == Split(original)
           a == Anatomy(first)
       IN /\ a.changed = 0
          /\ a.end <= Len(first)
          /\ \E i \in 1..Len(first) : first[i] = NoteLine

====
